---------------------------- MODULE Spec2Model ----------------------------
(***************************************************************************)
(* A model of the stock_tracker backend (backend/main.py): the holdings    *)
(* store adapter (load_holdings, save_holdings, update_holdings), the      *)
(* snapshot reconciler (save_snapshot), the history query (get_history)    *)
(* and the price source adapter (get_price).                               *)
(*                                                                         *)
(* The remote store (supabase) is modelled as two tables whose every       *)
(* operation either succeeds or raises; the clock, the data provider and   *)
(* the scraped page are inputs.  Python floats are modelled as exact       *)
(* rationals over small integers, None as the empty tuple <<>> for         *)
(* numbers and as the string "None" for text.                              *)
(*                                                                         *)
(* Every handler leaves what its caller sees in obs; the caller takes it   *)
(* (Return) before the next request step is taken.                         *)
(***************************************************************************)
EXTENDS Integers, Sequences, FiniteSets, TLC

VARIABLES
    df_stocks,      \* main.py:33-59  the stock directory loaded at startup
    configured,     \* main.py:22-28  the global supabase client is set
    hasMarketCol,   \* the holdings table of the store has a market column
    holdings,       \* the store's holdings table: per user_id, its rows in insertion order
    pc,             \* per request of update_holdings: where save_holdings is
    cuser,          \* per request: user_id
    clist,          \* per request: req.holdings
    ops,            \* per request: the store operations issued so far
    calls,          \* holdings requests (update_holdings, get_holdings) made so far
    batch,          \* per user: the lists of the calls that ran since no call was running for the user
    conc,           \* per user: two of those calls overlapped
    batchOk,        \* per user: no store operation of those calls failed
    settled,        \* per user: <<H>> while the rows are those a lone call's full insert of H left
    now,            \* the clock, in seconds (datetime.now, date.today)
    history,        \* the store's portfolio_history table, rows in insertion order
    nextId,         \* the id the store gives the next portfolio_history row
    prevCall,       \* per user: <<t>>, the time of the user's last successful save_snapshot
    isoReads,       \* datetime.fromisoformat reads the created_at text of the rows the store now makes
    snap,           \* per request of save_snapshot: idle, or what it decided after reading the latest row
    overlapped,     \* per user: a save_snapshot call read while another of the user's calls had not yet written
    obs             \* what the last handler returned to its caller

hvars == <<holdings, pc, cuser, clist, ops, calls, batch, conc, batchOk, settled>>

svars == <<now, history, nextId, prevCall, isoReads>>

vars == <<df_stocks, configured, hasMarketCol, holdings, pc, cuser, clist, ops, calls, batch, conc,
          batchOk, settled, now, history, nextId, prevCall, isoReads, snap, overlapped, obs>>

---------------------------------------------------------------------------
(* Bounds and input sets *)

MaxCalls == 2

Users == {"u1", "u2"}

Procs == {"p1", "p2"}

NoObs == [op |-> "none"]

\* Holdings as the client sends them: dicts, keys possibly missing.
Samsung == [name |-> "Samsung", code |-> "005930", market |-> "KR", buyPrice |-> 100, quantity |-> 2]

Apple == [name |-> "Apple", code |-> "AAPL", market |-> "US", buyPrice |-> 5, quantity |-> 0]

Hynix == [name |-> "Hynix", code |-> "000660"]

\* The lists a request carries: empty, single, a code twice, two markets.
HoldingsLists ==
    { <<>>, <<Samsung>>, <<Apple>>, <<Hynix>>, <<Samsung, Samsung>>, <<Samsung, Apple>> }

---------------------------------------------------------------------------
(* Python helpers *)

\* dict.get(key, default)
Get(d, key, default) == IF key \in DOMAIN d THEN d[key] ELSE default

Map(f(_), s) == [i \in DOMAIN s |-> f(s[i])]

Range(s) == {s[i] : i \in DOMAIN s}

CountIn(s, x) == Cardinality({i \in DOMAIN s : s[i] = x})

SameMultiset(s, t) ==
    /\ Len(s) = Len(t)
    /\ \A x \in Range(s) \cup Range(t) : CountIn(s, x) = CountIn(t, x)

---------------------------------------------------------------------------
(* The holdings table of the store, kept by user_id *)

\* .select("*").eq('user_id', user_id)
UserRows(table, u) == table[u]

\* A delete that removes nothing.
StoreDeleteNothing(table, u) == table

\* .delete().eq('user_id', user_id)
StoreDelete(table, u) == [v \in Users |-> IF v = u THEN <<>> ELSE table[v]]

\* A row as the table keeps it: a column the insert did not give is NULL.
StoredRow(r) ==
    IF hasMarketCol /\ "market" \notin DOMAIN r
    THEN [k \in DOMAIN r \cup {"market"} |-> IF k = "market" THEN "None" ELSE r[k]]
    ELSE r

\* The store rejects rows that name a column the table does not have.
SchemaAccepts(rows) == \A i \in DOMAIN rows : "market" \in DOMAIN rows[i] => hasMarketCol

\* .insert(rows)
StoreInsert(table, rows) ==
    [v \in Users |-> table[v] \o Map(StoredRow, SelectSeq(rows, LAMBDA r : r.user_id = v))]

---------------------------------------------------------------------------
(* load_holdings *)

\* int(row.get('quantity', 1) or 1)
LoadQuantity(row) ==
    LET q == Get(row, "quantity", 1) IN IF q = 0 THEN 1 ELSE q

LoadRow(row) ==
    [name |-> row.name,
     code |-> row.code,
     market |-> Get(row, "market", "KR"),
     buyPrice |-> row.buy_price,
     quantity |-> LoadQuantity(row)]

load_holdings(u, fail) ==
    IF ~configured THEN <<>>
    ELSE IF fail THEN <<>>
    ELSE Map(LoadRow, UserRows(holdings, u))

LoadHoldings(u, fail) ==
    /\ obs = NoObs
    /\ calls < MaxCalls
    /\ calls' = calls + 1
    /\ obs' = [op |-> "load_holdings", user |-> u, ok |-> configured /\ ~fail,
               data |-> load_holdings(u, fail), after |-> settled[u]]
    /\ UNCHANGED <<snap, overlapped, df_stocks, configured, hasMarketCol>>
    /\ UNCHANGED svars
    /\ UNCHANGED <<holdings, pc, cuser, clist, ops, batch, conc, batchOk, settled>>

---------------------------------------------------------------------------
(* save_holdings and update_holdings *)

BaseRow(u, h) ==
    [user_id |-> u,
     name |-> Get(h, "name", "None"),
     code |-> Get(h, "code", "None"),
     buy_price |-> Get(h, "buyPrice", 0),
     quantity |-> Get(h, "quantity", 1)]

FullRow(u, h) ==
    [k \in DOMAIN BaseRow(u, h) \cup {"market"} |->
        IF k = "market" THEN Get(h, "market", "KR") ELSE BaseRow(u, h)[k]]

db_rows_full(u, H) == [i \in DOMAIN H |-> FullRow(u, H[i])]

db_rows_fallback(u, H) == [i \in DOMAIN H |-> BaseRow(u, H[i])]

Active(u) == \E q \in Procs : pc[q] # "idle" /\ cuser[q] = u

\* The request is served by the first free worker.
FirstFree(p) == pc[p] = "idle" /\ (p = "p2" => pc["p1"] # "idle")

\* What the try of save_holdings makes of an exception raised inside it:
\* the except clause catches every Exception and only prints.
SaveOutcome(raisedInside) == "returned"

\* update_holdings answers after save_holdings returned; an exception of
\* save_holdings would leave the handler as a fault.
UpdateResponse(saveOutcome, H) ==
    IF saveOutcome = "raised" THEN [kind |-> "fault"]
    ELSE [kind |-> "payload", status |-> "success", count |-> Len(H)]

Finished(p, u, H, log, raisedInside, table) ==
    [op |-> "update_holdings", proc |-> p, user |-> u, list |-> H, ops |-> log,
     save |-> SaveOutcome(raisedInside),
     response |-> UpdateResponse(SaveOutcome(raisedInside), H),
     rows |-> UserRows(table, u)]

Reset(p) ==
    /\ pc' = [pc EXCEPT ![p] = "idle"]
    /\ clist' = [clist EXCEPT ![p] = <<>>]
    /\ ops' = [ops EXCEPT ![p] = <<>>]
    /\ cuser' = [cuser EXCEPT ![p] = "u1"]

\* The empty list is not returned on: the insert is attempted for it too.
AfterDeleteAlwaysInsert(H) == "insert_full"

\* The step after the delete: nothing more for an empty list.
AfterDelete(H) == IF H = <<>> THEN "return" ELSE "insert_full"

\* The step after the insert with the market column.
AfterInsertFull(ok) == IF ok THEN "return" ELSE "insert_fallback"

\* update_holdings is called and save_holdings runs up to its first store
\* operation, the delete; without a client it returns at once.
UpdateHoldings(p, u, H, fail) ==
    LET log == <<[op |-> "delete", ok |-> ~fail, user |-> u]>> IN
    /\ obs = NoObs
    /\ FirstFree(p)
    /\ calls < MaxCalls
    /\ calls' = calls + 1
    /\ IF ~configured
       THEN /\ UNCHANGED <<holdings, pc, cuser, clist, ops, batch, conc, batchOk, settled>>
            /\ obs' = Finished(p, u, H, <<>>, FALSE, holdings)
       ELSE /\ batch' = [batch EXCEPT ![u] = IF Active(u) THEN @ \cup {H} ELSE {H}]
            /\ conc' = [conc EXCEPT ![u] = Active(u)]
            /\ batchOk' = [batchOk EXCEPT ![u] = (IF Active(u) THEN @ ELSE TRUE) /\ ~fail]
            /\ IF fail
               THEN /\ UNCHANGED <<holdings, pc, cuser, clist, ops, settled>>
                    /\ obs' = Finished(p, u, H, log, TRUE, holdings)
               ELSE /\ holdings' = StoreDelete(holdings, u)
                    /\ settled' = [settled EXCEPT ![u] = <<>>]
                    /\ IF AfterDelete(H) = "return"
                       THEN /\ UNCHANGED <<pc, cuser, clist, ops>>
                            /\ obs' = Finished(p, u, H, log, FALSE, StoreDelete(holdings, u))
                       ELSE /\ pc' = [pc EXCEPT ![p] = "insert_full"]
                            /\ cuser' = [cuser EXCEPT ![p] = u]
                            /\ clist' = [clist EXCEPT ![p] = H]
                            /\ ops' = [ops EXCEPT ![p] = log]
                            /\ UNCHANGED obs
    /\ UNCHANGED <<snap, overlapped, df_stocks, configured, hasMarketCol>>
    /\ UNCHANGED svars

InsertFull(p, fail) ==
    LET u == cuser[p]
        H == clist[p]
        rows == db_rows_full(u, H)
        ok == ~fail /\ SchemaAccepts(rows)
        log == Append(ops[p], [op |-> "insert_full", ok |-> ok, rows |-> rows])
    IN
    /\ obs = NoObs
    /\ pc[p] = "insert_full"
    /\ IF ok
       THEN /\ holdings' = StoreInsert(holdings, rows)
            /\ settled' = [settled EXCEPT ![u] = IF conc[u] THEN <<>> ELSE <<H>>]
            /\ UNCHANGED batchOk
       ELSE /\ batchOk' = [batchOk EXCEPT ![u] = FALSE]
            /\ UNCHANGED <<holdings, settled>>
    /\ IF AfterInsertFull(ok) = "return"
       THEN /\ obs' = Finished(p, u, H, log, FALSE, StoreInsert(holdings, rows))
            /\ Reset(p)
       ELSE /\ pc' = [pc EXCEPT ![p] = "insert_fallback"]
            /\ ops' = [ops EXCEPT ![p] = log]
            /\ UNCHANGED <<cuser, clist, obs>>
    /\ UNCHANGED <<snap, overlapped, df_stocks, configured, hasMarketCol, calls, batch, conc>>
    /\ UNCHANGED svars

InsertFallback(p, fail) ==
    LET u == cuser[p]
        H == clist[p]
        rows == db_rows_fallback(u, H)
        ok == ~fail /\ SchemaAccepts(rows)
        log == Append(ops[p], [op |-> "insert_fallback", ok |-> ok, rows |-> rows])
    IN
    /\ obs = NoObs
    /\ pc[p] = "insert_fallback"
    /\ IF ok
       THEN /\ holdings' = StoreInsert(holdings, rows)
            /\ settled' = [settled EXCEPT ![u] = <<>>]
       ELSE /\ UNCHANGED <<holdings, settled>>
    /\ obs' = Finished(p, u, H, log, ~ok,
                        IF ok THEN StoreInsert(holdings, rows) ELSE holdings)
    /\ Reset(p)
    /\ UNCHANGED <<snap, overlapped, df_stocks, configured, hasMarketCol, calls, batch, conc, batchOk>>
    /\ UNCHANGED svars

\* The caller takes the answer.
Return ==
    /\ obs # NoObs
    /\ obs' = NoObs
    /\ UNCHANGED <<snap, overlapped, df_stocks, configured, hasMarketCol>>
    /\ UNCHANGED svars
    /\ UNCHANGED hvars

---------------------------------------------------------------------------
(* Numbers: a float is modelled as an exact fraction <<numerator, denominator>> *)

Abs(x) == IF x < 0 THEN -x ELSE x

RECURSIVE Gcd(_, _)
Gcd(a, b) == IF b = 0 THEN a ELSE Gcd(b, a % b)

\* n / d for d # 0, in lowest terms with a positive denominator.
Rat(n, d) ==
    LET g == Gcd(Abs(n), Abs(d))
        sgn == IF d < 0 THEN -1 ELSE 1
    IN  <<(sgn * n) \div g, (sgn * d) \div g>>

Zero == <<0, 1>>

Merge(a, b) == [k \in DOMAIN a \cup DOMAIN b |-> IF k \in DOMAIN b THEN b[k] ELSE a[k]]

---------------------------------------------------------------------------
(* The clock *)

FreshSeconds == 3600

DaySeconds == 24 * 3600

MaxTicks == 2

\* The model starts half an hour before midnight of day 4000.
StartTime == 4000 * DaySeconds + DaySeconds - 1800

Gaps == {1800, 3599, 3600}

\* datetime.date.today(), the server's zone taken to be UTC
Today(t) == t \div DaySeconds

Tick(g) ==
    /\ obs = NoObs
    /\ now + g - StartTime <= MaxTicks * FreshSeconds
    /\ now' = now + g
    /\ UNCHANGED <<snap, overlapped, df_stocks, configured, hasMarketCol, history, nextId, prevCall, isoReads, obs>>
    /\ UNCHANGED hvars

---------------------------------------------------------------------------
(* The portfolio_history table of the store *)

\* A row the table held before the model starts, off days old; the oldest
\* rows predate the per-market columns.
Seed(i, u, off, kc, ki, uc, ui) ==
    [id |-> i, user_id |-> u,
     created_at |-> [t |-> IF off = 0 THEN StartTime - 1800
                           ELSE (4000 - off) * DaySeconds + 43200,
                     iso |-> TRUE],
     date |-> 4000 - off,
     total_current_value |-> 12, total_invested_value |-> 10,
     daily_return |-> 2, daily_return_rate |-> <<20, 1>>,
     kr_current_value |-> kc, kr_invested_value |-> ki,
     us_current_value |-> uc, us_invested_value |-> ui]

SeedHistory ==
    << Seed(1, "u1", 30, <<6>>, <<4>>, <<6>>, <<6>>),
       Seed(2, "u1", 3651, <<>>, <<>>, <<>>, <<>>),
       Seed(3, "u1", 0, <<6>>, <<0>>, <<6>>, <<-2>>),
       Seed(4, "u1", 366, <<>>, <<>>, <<12>>, <<10>>),
       Seed(5, "u2", 7, <<6>>, <<5>>, <<6>>, <<5>>),
       Seed(6, "u1", 7, <<6>>, <<5>>, <<>>, <<5>>),
       Seed(7, "u1", 91, <<6>>, <<5>>, <<6>>, <<5>>),
       Seed(8, "u1", 3650, <<>>, <<>>, <<>>, <<>>),
       Seed(9, "u1", 8, <<6>>, <<>>, <<6>>, <<5>>),
       Seed(10, "u1", 365, <<6>>, <<5>>, <<6>>, <<5>>),
       Seed(11, "u1", 31, <<6>>, <<5>>, <<6>>, <<5>>),
       Seed(12, "u1", 90, <<6>>, <<5>>, <<6>>, <<5>>) >>

\* .eq("user_id", user_id)
HistoryOf(table, u) == SelectSeq(table, LAMBDA r : r.user_id = u)

\* .order("created_at", desc=True).limit(1): a row none is newer than.
LatestRows(table, u) ==
    {r \in Range(HistoryOf(table, u)) :
        \A q \in Range(HistoryOf(table, u)) : q.created_at.t <= r.created_at.t}

\* An update without the filter on id: every row takes the columns of data.
StoreUpdateAll(table, id, data) == [i \in DOMAIN table |-> Merge(table[i], data)]

\* .update(data).eq("id", update_id): the columns of data are set, created_at stays.
StoreUpdate(table, id, data) ==
    [i \in DOMAIN table |-> IF table[i].id = id THEN Merge(table[i], data) ELSE table[i]]

\* .insert(data): the store gives the id and created_at; iso: whether the text
\* it later returns for created_at is one datetime.fromisoformat reads.
StoreInsertRow(table, data, id, t, iso) ==
    Append(table, Merge(data, [id |-> id, created_at |-> [t |-> t, iso |-> iso]]))

---------------------------------------------------------------------------
(* save_snapshot *)

\* SnapshotRequest bodies: the six values; the per-market ones may be null.
Gain ==
    [total_current |-> 110, total_invested |-> 100,
     kr_current |-> <<60>>, kr_invested |-> <<50>>, us_current |-> <<50>>, us_invested |-> <<50>>]

SnapshotValues(u) ==
    IF u # "u1" THEN {Gain} ELSE
    { Gain,
      [total_current |-> 0, total_invested |-> 0,
       kr_current |-> <<0>>, kr_invested |-> <<0>>, us_current |-> <<0>>, us_invested |-> <<0>>],
      [total_current |-> 5, total_invested |-> 3,
       kr_current |-> <<>>, kr_invested |-> <<2>>, us_current |-> <<5>>, us_invested |-> <<-1>>] }

daily_return(req) == req.total_current - req.total_invested

\* The rate without the factor 100.
daily_return_ratio(req) ==
    IF req.total_invested > 0 THEN Rat(daily_return(req), req.total_invested) ELSE Zero

daily_return_rate(req) ==
    IF req.total_invested > 0 THEN Rat(100 * daily_return(req), req.total_invested) ELSE Zero

\* A row exactly 3600 seconds old still counts as fresh.
FreshOrEqual(diff) == diff <= FreshSeconds

\* diff < 3600
Fresh(diff) == diff < FreshSeconds

\* The parse of created_at fails for every row.
should_update_unread(last, t) == FALSE

\* The try around the parse: an unreadable created_at leaves should_update False.
should_update(last, t) == last.created_at.iso /\ Fresh(t - last.created_at.t)

SnapshotData(u, req, t) ==
    [user_id |-> u,
     total_current_value |-> req.total_current,
     total_invested_value |-> req.total_invested,
     daily_return |-> daily_return(req),
     daily_return_rate |-> daily_return_rate(req),
     kr_current_value |-> req.kr_current,
     kr_invested_value |-> req.kr_invested,
     us_current_value |-> req.us_current,
     us_invested_value |-> req.us_invested,
     date |-> Today(t)]

\* raise HTTPException(status_code=503): outside the try.
Unavailable == [kind |-> "fault", code |-> 503]

\* The exception leaves the handler.
SnapshotReraised == [kind |-> "fault", code |-> 500]

\* except Exception as e: return {"status": "error", "message": str(e)}
SnapshotCaught == [kind |-> "payload", status |-> "error", message |-> "str(e)"]

SnapshotSuccess(upd) ==
    [kind |-> "payload", status |-> "success", action |-> IF upd THEN "update" ELSE "insert"]

SnapshotObs(u, req, response, last, written, table) ==
    [op |-> "save_snapshot", user |-> u, req |-> req, response |-> response,
     time |-> now,
     before |-> Len(HistoryOf(history, u)), after |-> Len(HistoryOf(table, u)),
     gap |-> IF prevCall[u] = <<>> THEN <<>> ELSE <<now - prevCall[u][1]>>,
     latest |-> last, written |-> written]

\* The whole handler; qFail, wFail: the query of the latest row, the write, raise.
SaveSnapshot(u, req, qFail, wFail) ==
    /\ obs = NoObs
    /\ calls < MaxCalls
    /\ calls' = calls + 1
    /\ IF ~configured
       THEN /\ obs' = SnapshotObs(u, req, Unavailable, <<>>, <<>>, history)
            /\ UNCHANGED <<history, nextId, prevCall>>
       ELSE IF qFail
       THEN /\ obs' = SnapshotObs(u, req, SnapshotCaught, <<>>, <<>>, history)
            /\ UNCHANGED <<history, nextId, prevCall>>
       ELSE \E last \in IF LatestRows(history, u) = {} THEN {<<>>}
                        ELSE {<<r>> : r \in LatestRows(history, u)} :
            LET upd == last # <<>> /\ should_update(last[1], now)
                update_id == IF upd THEN last[1].id ELSE 0
                data == SnapshotData(u, req, now)
                table == IF upd /\ update_id # 0
                         THEN StoreUpdate(history, update_id, data)
                         ELSE StoreInsertRow(history, data, nextId, now, isoReads)
                row == IF upd /\ update_id # 0
                       THEN Merge(last[1], data)
                       ELSE table[Len(table)]
            IN  IF wFail
                THEN /\ obs' = SnapshotObs(u, req, SnapshotCaught, last, <<>>, history)
                     /\ UNCHANGED <<history, nextId, prevCall>>
                ELSE /\ history' = table
                     /\ nextId' = IF upd /\ update_id # 0 THEN nextId ELSE nextId + 1
                     /\ prevCall' = [prevCall EXCEPT ![u] = <<now>>]
                     /\ obs' = SnapshotObs(u, req, SnapshotSuccess(upd), last, <<row>>, table)
    /\ UNCHANGED <<snap, overlapped, df_stocks, configured, hasMarketCol, now, isoReads>>
    /\ UNCHANGED <<holdings, pc, cuser, clist, ops, batch, conc, batchOk, settled>>

\* A worker that is serving no save_snapshot request.
Idle == [user |-> "none"]

InitSnapshots ==
    /\ now = StartTime
    /\ nextId = Len(SeedHistory) + 1
    /\ prevCall = [u \in Users |-> <<>>]
    /\ snap = [p \in Procs |-> Idle]
    /\ overlapped = [u \in Users |-> FALSE]

\* save_snapshot step by step: the query of the latest row and the write are
\* two requests to the store, and other requests may come between them.

\* The request is served by the first free worker.
SnapFree(p) == snap[p] = Idle /\ (p = "p2" => snap["p1"] # Idle)

\* Another call of the user has read and not yet written.
Pending(u) == \E q \in Procs : snap[q] # Idle /\ snap[q].user = u

\* main.py:326-371: the guard, the query, the decision and the data.
ReadLatest(p, u, req, qFail) ==
    /\ obs = NoObs
    /\ SnapFree(p)
    /\ calls < MaxCalls
    /\ calls' = calls + 1
    /\ IF ~configured
       THEN /\ obs' = SnapshotObs(u, req, Unavailable, <<>>, <<>>, history)
            /\ UNCHANGED <<snap, overlapped>>
       ELSE IF qFail
       THEN /\ obs' = SnapshotObs(u, req, SnapshotCaught, <<>>, <<>>, history)
            /\ UNCHANGED <<snap, overlapped>>
       ELSE \E last \in IF LatestRows(history, u) = {} THEN {<<>>}
                        ELSE {<<r>> : r \in LatestRows(history, u)} :
            LET upd == last # <<>> /\ should_update(last[1], now)
            IN  /\ snap' = [snap EXCEPT ![p] =
                               [user |-> u, req |-> req, last |-> last, should_update |-> upd,
                                update_id |-> IF upd THEN last[1].id ELSE 0,
                                data |-> SnapshotData(u, req, now)]]
                /\ overlapped' = [overlapped EXCEPT ![u] = @ \/ Pending(u)]
                /\ UNCHANGED obs
    /\ UNCHANGED <<df_stocks, configured, hasMarketCol, now, history, nextId, prevCall, isoReads>>
    /\ UNCHANGED <<holdings, pc, cuser, clist, ops, batch, conc, batchOk, settled>>

\* main.py:373-382: the update or the insert, and the answer.
WriteSnapshot(p, wFail) ==
    /\ obs = NoObs
    /\ snap[p] # Idle
    /\ LET c == snap[p]
           upd == c.should_update /\ c.update_id # 0
           table == IF upd THEN StoreUpdate(history, c.update_id, c.data)
                    ELSE StoreInsertRow(history, c.data, nextId, now, isoReads)
           written == IF upd THEN {r \in Range(table) : r.id = c.update_id}
                      ELSE {table[Len(table)]}
       IN  IF wFail
           THEN /\ obs' = SnapshotObs(c.user, c.req, SnapshotCaught, c.last, <<>>, history)
                /\ UNCHANGED <<history, nextId, prevCall>>
           ELSE /\ history' = table
                /\ nextId' = IF upd THEN nextId ELSE nextId + 1
                /\ prevCall' = [prevCall EXCEPT ![c.user] = <<now>>]
                /\ obs' = SnapshotObs(c.user, c.req, SnapshotSuccess(c.should_update), c.last,
                                      IF written = {} THEN <<>> ELSE <<CHOOSE r \in written : TRUE>>,
                                      table)
    /\ snap' = [snap EXCEPT ![p] = Idle]
    /\ UNCHANGED <<overlapped, df_stocks, configured, hasMarketCol, now, isoReads, calls>>
    /\ UNCHANGED <<holdings, pc, cuser, clist, ops, batch, conc, batchOk, settled>>

---------------------------------------------------------------------------
(* get_history *)

\* ?range= as the client sends it, or not at all.
RangeArgs == {"omitted", "1W", "1M", "3M", "1Y", "ALL", "5Y"}

\* range: str = '1M'
RangeParam(arg) == IF arg = "omitted" THEN "1M" ELSE arg

RangeDays(range) ==
    CASE range = "1W" -> 7
      [] range = "1M" -> 30
      [] range = "3M" -> 90
      [] range = "1Y" -> 365
      [] OTHER -> 365 * 10

start_date(range, today) == today - RangeDays(range)

\* A filter that drops the rows of the first day of the window.
DateAfter(date, start) == date > start

\* .gte("date", start_date)
DateFilter(date, start) == date >= start

SelectedColumns ==
    {"created_at", "date", "total_current_value", "total_invested_value", "daily_return",
     "daily_return_rate", "kr_current_value", "us_current_value", "kr_invested_value",
     "us_invested_value"}

\* .select("created_at, date, ...")
Project(row) == [k \in SelectedColumns |-> row[k]]

\* r comes before q under .order("created_at", desc=False); rows of one
\* instant are taken in the order the store made them.
Before(r, q) ==
    \/ r.created_at.t < q.created_at.t
    \/ r.created_at.t = q.created_at.t /\ r.id < q.id

RECURSIVE Sorted(_)
Sorted(rows) ==
    IF rows = {} THEN <<>>
    ELSE LET first == CHOOSE r \in rows : \A q \in rows \ {r} : Before(r, q)
         IN  <<first>> \o Sorted(rows \ {first})

\* The stored rows the query of get_history matches, in its order.
HistoryQuery(table, u, start) ==
    Sorted({r \in Range(HistoryOf(table, u)) : DateFilter(r.date, start)})

\* A rate that is computed for every invested value but 0.
RateUnlessZero(ret, invested) == IF invested # 0 THEN Rat(100 * ret, invested) ELSE Zero

\* (ret / invested * 100) if invested > 0 else 0
Rate(ret, invested) == IF invested > 0 THEN Rat(100 * ret, invested) ELSE Zero

Derived(item, cur, inv, ret, rate) ==
    IF item[cur] # <<>> /\ item[inv] # <<>>
    THEN LET r == item[cur][1] - item[inv][1]
         IN  [k \in {ret, rate} |-> IF k = ret THEN r ELSE Rate(r, item[inv][1])]
    ELSE <<>>

Enrich(row) ==
    LET item == row
        withKr == Merge(item, Derived(item, "kr_current_value", "kr_invested_value",
                                      "kr_return", "kr_rate"))
    IN  Merge(withKr, Derived(withKr, "us_current_value", "us_invested_value",
                              "us_return", "us_rate"))

get_history(u, arg, fail) ==
    IF ~configured THEN <<>>
    ELSE IF fail THEN <<>>
    ELSE LET rows == HistoryQuery(history, u, start_date(RangeParam(arg), Today(now)))
         IN  [i \in DOMAIN rows |-> Enrich(Project(rows[i]))]

GetHistory(u, arg, fail) ==
    /\ obs = NoObs
    /\ calls < MaxCalls
    /\ calls' = calls + 1
    /\ obs' = [op |-> "get_history", user |-> u, range |-> arg, ok |-> configured /\ ~fail,
               today |-> Today(now), rows |-> get_history(u, arg, fail),
               stored |-> IF configured /\ ~fail
                          THEN HistoryQuery(history, u, start_date(RangeParam(arg), Today(now)))
                          ELSE <<>>]
    /\ UNCHANGED <<snap, overlapped, df_stocks, configured, hasMarketCol>>
    /\ UNCHANGED svars
    /\ UNCHANGED <<holdings, pc, cuser, clist, ops, batch, conc, batchOk, settled>>

---------------------------------------------------------------------------
(* get_price (main.py:227-322) *)

\* A text is the sequence of its characters.
Digits == <<"0", "1", "2", "3", "4", "5", "6", "7", "8", "9">>

IsDigit(c) == \E i \in 1..Len(Digits) : Digits[i] = c

DigitValue(c) == (CHOOSE i \in 1..Len(Digits) : Digits[i] = c) - 1

RECURSIVE Pow10(_)
Pow10(k) == IF k = 0 THEN 1 ELSE 10 * Pow10(k - 1)

\* get_text(strip=True): the text without the white space around it.
RECURSIVE Strip(_)
Strip(t) ==
    IF t = <<>> THEN t
    ELSE IF Head(t) = " " THEN Strip(Tail(t))
    ELSE IF t[Len(t)] = " " THEN Strip(SubSeq(t, 1, Len(t) - 1))
    ELSE t

\* .replace(',', '')
RemoveCommas(t) == SelectSeq(t, LAMBDA c : c # ",")

Unsigned(t) == IF t # <<>> /\ Head(t) \in {"+", "-"} THEN Tail(t) ELSE t

Sign(t) == IF t # <<>> /\ Head(t) = "-" THEN -1 ELSE 1

RECURSIVE DigitsValue(_)
DigitsValue(t) ==
    IF t = <<>> THEN 0 ELSE 10 * DigitsValue(SubSeq(t, 1, Len(t) - 1)) + DigitValue(t[Len(t)])

\* int(text) succeeds: an optional sign and then digits only (over the
\* characters of ScrapedTexts).
IsInt(t) ==
    /\ Unsigned(t) # <<>>
    /\ \A i \in 1..Len(Unsigned(t)) : IsDigit(Unsigned(t)[i])

ParseInt(t) == Sign(t) * DigitsValue(Unsigned(t))

Dots(t) == {i \in 1..Len(t) : t[i] = "."}

\* float(text) succeeds: an optional sign, digits with at most one point and
\* at least one digit (over the characters of ScrapedTexts).
IsFloat(t) ==
    LET u == Unsigned(t) IN
        /\ \E i \in 1..Len(u) : IsDigit(u[i])
        /\ \A i \in 1..Len(u) : IsDigit(u[i]) \/ u[i] = "."
        /\ Cardinality(Dots(u)) <= 1

ParseFloat(t) ==
    LET u == Unsigned(t)
        decimals == IF Dots(u) = {} THEN 0 ELSE Len(u) - (CHOOSE i \in Dots(u) : TRUE)
        digits == SelectSeq(u, LAMBDA c : c # ".")
    IN  Rat(Sign(t) * DigitsValue(digits), Pow10(decimals))

RECURSIVE IntText(_)
IntText(n) ==
    IF n < 10 THEN <<Digits[n + 1]>> ELSE IntText(n \div 10) \o <<Digits[(n % 10) + 1]>>

\* f"{change:.2f}" of a whole number.
Format2(c) == (IF c < 0 THEN <<"-">> ELSE <<>>) \o IntText(Abs(c)) \o <<".", "0", "0">>

\* The directory the startup leaves: the KR listing and then the US listing,
\* or the empty frame when the listing could not be loaded.
Directory ==
    <<[Code |-> "005930", Name |-> "Samsung", market |-> "KR"],
      [Code |-> "AAPL", Name |-> "Apple", market |-> "US"]>>

EmptyDirectory == <<>>

Codes == {"", "005930", "AAPL", "ZZZ"}

\* str(e) of an exception an upstream library raises.
UpstreamMessages == {"", "Connection refused"}

\* fdr.DataReader(code, start): it raises, or gives the closes of the rows.
ProviderOutcomes ==
    [raises : {TRUE}, msg : UpstreamMessages, rows : {<<>>}]
        \cup [raises : {FALSE}, msg : {""},
              rows : {<<>>, <<100>>, <<100, 110>>, <<110, 100>>, <<0, 5>>}]

ScrapedTexts ==
    {<<"7", "1", ",", "5", "0", "0">>, <<" ", "1", ".", "2", "3">>, <<"N", "/", "A">>, <<>>}

BlindTexts == {<<>>} \cup {<<t>> : t \in ScrapedTexts}
                 \cup {<<t1, t2>> : t1 \in ScrapedTexts, t2 \in ScrapedTexts}

\* requests.get and the parsed page: which nodes it has and their texts.
Pages ==
    [raises : BOOLEAN, msg : UpstreamMessages, no_today : BOOLEAN, price_span : BOOLEAN,
     price_text : ScrapedTexts, no_exday : BOOLEAN, blinds : BlindTexts,
     ico_up : BOOLEAN, ico_down : BOOLEAN]

\* The page on which every node is there and every text parses.
GoodPage ==
    [raises |-> FALSE, msg |-> "", no_today |-> TRUE, price_span |-> TRUE,
     price_text |-> <<"7", "1", ",", "5", "0", "0">>, no_exday |-> TRUE,
     blinds |-> <<<<"7", "1", ",", "5", "0", "0">>, <<" ", "1", ".", "2", "3">>>>,
     ico_up |-> FALSE, ico_down |-> TRUE]

\* found = df_stocks[df_stocks['Code'] == code]; market = found.iloc[0]['market']
Market(code) ==
    LET found == SelectSeq(df_stocks, LAMBDA row : row.Code = code)
    IN  IF found = <<>> THEN "KR" ELSE found[1].market

\* raise HTTPException(status_code=400): before the try.
CodeRequired == [kind |-> "fault", code |-> 400]

Quote(code, price, rate, change) ==
    [kind |-> "payload",
     body |-> [code |-> code, price |-> price, rate |-> rate, change |-> change]]

SoftFailure(code, msg) ==
    [kind |-> "payload",
     body |-> [code |-> code, price |-> Zero, rate |-> Zero, change |-> <<"0">>, error |-> msg]]

\* The exception leaves the handler.
PriceReraised(code, msg) == [kind |-> "fault", code |-> 500]

\* except Exception as e: return {..., "error": str(e)}
PriceCaught(code, msg) == SoftFailure(code, msg)

Raised(msg) == [raised |-> TRUE, msg |-> msg]

Returned(response) == [raised |-> FALSE, response |-> response]

\* The US branch, with its own try/except.
us_price(code, provider) ==
    IF provider.raises THEN SoftFailure(code, provider.msg)
    ELSE IF provider.rows = <<>> THEN SoftFailure(code, "Empty data returned for " \o code)
    ELSE LET df == provider.rows
             price == df[Len(df)]
             prev_close == IF Len(df) > 1 THEN df[Len(df) - 1] ELSE price
             change == price - prev_close
             rate == IF prev_close # 0 THEN Rat(change * 100, prev_close) ELSE Zero
         IN  Quote(code, Rat(price, 1), rate, Format2(change))

\* The KR branch: what it returns, or the exception it raises.
kr_price(code, page) ==
    IF page.raises THEN Raised(page.msg)
    ELSE IF ~page.no_today THEN Returned(SoftFailure(code, "KR Data parse fail"))
    ELSE IF ~page.price_span THEN Raised("'NoneType' object has no attribute 'get_text'")
    ELSE LET price_text == RemoveCommas(Strip(page.price_text)) IN
    IF ~IsInt(price_text) THEN Raised("invalid literal for int() with base 10")
    ELSE IF ~page.no_exday THEN Raised("'NoneType' object has no attribute 'select'")
    ELSE LET blinds == page.blinds
             change_text == IF Len(blinds) >= 2 THEN Strip(blinds[1]) ELSE <<"0">>
             rate_text == IF Len(blinds) >= 2 THEN Strip(blinds[2]) ELSE <<"0">>
         IN  IF ~IsFloat(rate_text) THEN Raised("could not convert string to float")
             ELSE LET rate == ParseFloat(rate_text)
                      down == IF page.ico_down THEN <<-Abs(rate[1]), rate[2]>> ELSE rate
                      up == IF page.ico_up THEN <<Abs(down[1]), down[2]>> ELSE down
                  IN  Returned(Quote(code, Rat(ParseInt(price_text), 1), up, change_text))

get_price(code, provider, page) ==
    IF code = "" THEN CodeRequired
    ELSE IF Market(code) = "US" THEN us_price(code, provider)
    ELSE LET r == kr_price(code, page)
         IN  IF r.raised THEN PriceCaught(code, r.msg) ELSE r.response

NoUpstream == [raises |-> FALSE, msg |-> "", rows |-> <<>>]

\* The upstream the request consults: none for an empty code, the provider
\* on the US path, the page on the KR path.
ProviderOf(code) ==
    IF code # "" /\ Market(code) = "US" THEN ProviderOutcomes ELSE {NoUpstream}

PageOf(code) ==
    IF code # "" /\ Market(code) # "US" THEN Pages ELSE {GoodPage}

GetPrice(code, provider, page) ==
    /\ obs = NoObs
    /\ obs' = [op |-> "get_price", code |-> code,
               market |-> IF code = "" THEN "" ELSE Market(code),
               provider |-> provider, page |-> page,
               response |-> get_price(code, provider, page)]
    /\ UNCHANGED <<snap, overlapped, df_stocks, configured, hasMarketCol>>
    /\ UNCHANGED svars
    /\ UNCHANGED hvars

---------------------------------------------------------------------------
(* Specifications *)

InitHoldings ==
    /\ holdings = [u \in Users |-> <<>>]
    /\ pc = [p \in Procs |-> "idle"]
    /\ cuser = [p \in Procs |-> "u1"]
    /\ clist = [p \in Procs |-> <<>>]
    /\ ops = [p \in Procs |-> <<>>]
    /\ calls = 0
    /\ batch = [u \in Users |-> {}]
    /\ conc = [u \in Users |-> FALSE]
    /\ batchOk = [u \in Users |-> TRUE]
    /\ settled = [u \in Users |-> <<>>]

Init ==
    /\ df_stocks = Directory
    /\ configured \in BOOLEAN
    /\ hasMarketCol \in BOOLEAN
    /\ InitHoldings
    /\ InitSnapshots
    /\ isoReads = TRUE
    /\ history = <<>>
    /\ obs = NoObs

NextHoldings ==
    \/ \E p \in Procs, u \in Users, H \in HoldingsLists, fail \in BOOLEAN :
          UpdateHoldings(p, u, H, fail)
    \/ \E p \in Procs, fail \in BOOLEAN : InsertFull(p, fail)
    \/ \E p \in Procs, fail \in BOOLEAN : InsertFallback(p, fail)
    \/ \E u \in Users, fail \in BOOLEAN : LoadHoldings(u, fail)
    \/ Return

SpecHoldings == Init /\ [][NextHoldings]_vars

InitHistory ==
    /\ df_stocks = Directory
    /\ configured \in BOOLEAN
    /\ hasMarketCol = TRUE
    /\ InitHoldings
    /\ InitSnapshots
    /\ isoReads \in BOOLEAN
    /\ history \in {<<>>, SeedHistory}
    /\ obs = NoObs

NextHistory ==
    \/ \E g \in Gaps : Tick(g)
    \/ \E u \in Users, qFail, wFail \in BOOLEAN :
          \E req \in SnapshotValues(u) : SaveSnapshot(u, req, qFail, wFail)
    \/ \E u \in Users, range \in RangeArgs, fail \in BOOLEAN : GetHistory(u, range, fail)
    \/ Return

SpecHistory == InitHistory /\ [][NextHistory]_vars

InitSteps ==
    /\ df_stocks = Directory
    /\ configured \in BOOLEAN
    /\ hasMarketCol = TRUE
    /\ InitHoldings
    /\ InitSnapshots
    /\ isoReads \in BOOLEAN
    /\ history = <<>>
    /\ obs = NoObs

NextSteps ==
    \/ \E g \in Gaps : Tick(g)
    \/ \E p \in Procs, u \in Users, qFail \in BOOLEAN :
          \E req \in SnapshotValues(u) : ReadLatest(p, u, req, qFail)
    \/ \E p \in Procs, wFail \in BOOLEAN : WriteSnapshot(p, wFail)
    \/ Return

SpecSteps == InitSteps /\ [][NextSteps]_vars

\* The two write paths together, on a history table that has rows already.
InitWrites ==
    /\ df_stocks = Directory
    /\ configured = TRUE
    /\ hasMarketCol \in BOOLEAN
    /\ InitHoldings
    /\ InitSnapshots
    /\ isoReads = TRUE
    /\ history = SeedHistory
    /\ obs = NoObs

NextWrites ==
    \/ \E p \in Procs, u \in Users, H \in HoldingsLists, fail \in BOOLEAN :
          UpdateHoldings(p, u, H, fail)
    \/ \E p \in Procs, fail \in BOOLEAN : InsertFull(p, fail)
    \/ \E p \in Procs, fail \in BOOLEAN : InsertFallback(p, fail)
    \/ \E p \in Procs, u \in Users, qFail \in BOOLEAN : ReadLatest(p, u, Gain, qFail)
    \/ \E p \in Procs, wFail \in BOOLEAN : WriteSnapshot(p, wFail)
    \/ Return

SpecWrites == InitWrites /\ [][NextWrites]_vars

InitPrice ==
    /\ df_stocks \in {Directory, EmptyDirectory}
    /\ configured = TRUE
    /\ hasMarketCol = TRUE
    /\ InitHoldings
    /\ InitSnapshots
    /\ isoReads = TRUE
    /\ history = <<>>
    /\ obs = NoObs

NextPrice ==
    \/ /\ obs = NoObs
       /\ \E code \in Codes : \E provider \in ProviderOf(code), page \in PageOf(code) :
             GetPrice(code, provider, page)
    \/ Return

SpecPrice == InitPrice /\ [][NextPrice]_vars

---------------------------------------------------------------------------
(* Claims about the holdings store adapter *)

ReportsSuccess(r) == r.kind = "payload" /\ r.status = "success"

\* Every row of new is among rows, as often as in new.
Includes(rows, new) == \A r \in Range(new) : CountIn(rows, r) >= CountIn(new, r)

NewRowsStored(o) ==
    \/ Includes(o.rows, Map(StoredRow, db_rows_full(o.user, o.list)))
    \/ Includes(o.rows, Map(StoredRow, db_rows_fallback(o.user, o.list)))

BothInsertsFailed(o) == Len(o.ops) = 3 /\ ~o.ops[2].ok /\ ~o.ops[3].ok

\* C2: when both the insert with the market column and the retry without it
\* fail, save_holdings raises and update_holdings does not answer success;
\* a write that answers success has left the new rows stored.
C2_InsertFailurePropagates ==
    (obs.op = "update_holdings" /\ configured) =>
        /\ BothInsertsFailed(obs) => (obs.save = "raised" /\ ~ReportsSuccess(obs.response))
        /\ ReportsSuccess(obs.response) => NewRowsStored(obs)

HoldingKeys == {"name", "code", "market", "buyPrice", "quantity"}

\* The lists C3 speaks of: every entry has all five fields, market KR or US.
WellFormed(H) ==
    \A i \in DOMAIN H : DOMAIN H[i] = HoldingKeys /\ H[i].market \in {"KR", "US"}

\* C3: load_holdings after a lone save_holdings of a well-formed list H whose
\* insert with the market column was accepted, and nothing written for the
\* user since, returns the multiset H.
C3_SaveLoadRoundTrip ==
    (obs.op = "load_holdings" /\ obs.ok /\ obs.after # <<>> /\ WellFormed(obs.after[1])) =>
        SameMultiset(obs.data, obs.after[1])

\* All calls of the user's last batch are over and none met a store error.
BatchDone(u) == ~Active(u) /\ batch[u] # {} /\ batchOk[u]

\* C8 as claimed: after concurrent calls for one user that all completed
\* without a store error, the user's rows are the list of one of the calls.
C8_ReplaceAllUnderInterleaving ==
    \A u \in Users : (BatchDone(u) /\ conc[u]) =>
        \E H \in batch[u] : SameMultiset(UserRows(holdings, u), Map(StoredRow, db_rows_full(u, H)))

\* C8 amended: calls that do not overlap leave exactly the list of the last
\* call; calls that overlap leave only rows of their lists, and the whole
\* list of at least one of them.
C8_ReplaceAllWhenNotOverlapping ==
    \A u \in Users : BatchDone(u) =>
        LET rows == UserRows(holdings, u)
            of(H) == Map(StoredRow, db_rows_full(u, H))
        IN  /\ ~conc[u] => \A H \in batch[u] : rows = of(H)
            /\ conc[u] => /\ \A i \in DOMAIN rows : \E H \in batch[u] : rows[i] \in Range(of(H))
                          /\ \E H \in batch[u] : Includes(rows, of(H))

C8_OverlappingCallsDone ==
    \E u \in Users :
        /\ BatchDone(u) /\ conc[u]
        /\ \A H \in batch[u] : UserRows(holdings, u) # Map(StoredRow, db_rows_full(u, H))

WithoutMarket(r) == [k \in DOMAIN r \ {"market"} |-> r[k]]

\* The store operations of one save_holdings call, in the order of C9;
\* whole: the call is over.
InOrder(u, H, log, whole) ==
    /\ Len(log) <= 3
    /\ Len(log) >= 1 => log[1].op = "delete" /\ log[1].user = u
    /\ Len(log) >= 2 =>
          /\ log[1].ok /\ H # <<>>
          /\ log[2].op = "insert_full"
          /\ Len(log[2].rows) = Len(H)
          /\ \A i \in DOMAIN H : /\ "market" \in DOMAIN log[2].rows[i]
                                 /\ log[2].rows[i].user_id = u
    /\ Len(log) = 3 =>
          /\ ~log[2].ok
          /\ log[3].op = "insert_fallback"
          /\ log[3].rows = Map(WithoutMarket, log[2].rows)
    /\ whole =>
          /\ Len(log) >= 1
          /\ (log[1].ok /\ H # <<>>) => Len(log) >= 2
          /\ (Len(log) >= 2 /\ ~log[2].ok) => Len(log) = 3

\* C9: a save_holdings call on a configured store issues one delete of the
\* user's rows, then, only for a non-empty list, one insert of rows with the
\* market column, then, only if that insert failed, one insert of the same
\* rows without it; nothing else.
C9_StoreOperationOrder ==
    /\ (obs.op = "update_holdings" /\ configured) => InOrder(obs.user, obs.list, obs.ops, TRUE)
    /\ \A p \in Procs : pc[p] # "idle" => InOrder(cuser[p], clist[p], ops[p], FALSE)

C9_FallbackInsertIssued ==
    obs.op = "update_holdings" /\ Len(obs.ops) = 3 /\ obs.ops[3].ok

---------------------------------------------------------------------------
(* Claims about the snapshot reconciler *)

Succeeded(o) == o.response.kind = "payload" /\ o.response.status = "success"

Updated(o) == o.response.action = "update" /\ o.after = o.before

Inserted(o) == o.response.action = "insert" /\ o.after = o.before + 1

\* C1 as claimed: of two successive successful save_snapshot calls of a user,
\* the second updates (row count unchanged) when they are less than 3600
\* seconds apart and inserts (row count + 1) when they are 3600 or more apart.
\* Stated for the calls that find a readable created_at only.
C1_SuccessiveCallsRule ==
    (/\ obs.op = "save_snapshot" /\ Succeeded(obs) /\ obs.gap # <<>>
     /\ obs.latest # <<>> /\ obs.latest[1].created_at.iso) =>
        IF obs.gap[1] < 3600 THEN Updated(obs) ELSE Inserted(obs)

\* The user's most recent row was made less than 3600 seconds before the call
\* and its created_at is readable.
LatestIsFresh(o) ==
    /\ o.latest # <<>>
    /\ o.latest[1].created_at.iso
    /\ o.time - o.latest[1].created_at.t < 3600

\* C1 amended: a successful call updates the user's most recent row, row
\* count unchanged, exactly when that row was created less than 3600 seconds
\* before the call (and its created_at is readable); otherwise it inserts a
\* row created now, row count + 1.  An update does not renew created_at, so
\* calls less than 3600 seconds apart insert once the row is an hour old;
\* calls 3600 seconds or more apart always insert.
C1_FreshnessRule ==
    (obs.op = "save_snapshot" /\ Succeeded(obs)) =>
        /\ LatestIsFresh(obs) =>
              /\ Updated(obs)
              /\ obs.written[1].id = obs.latest[1].id
              /\ obs.written[1].created_at = obs.latest[1].created_at
        /\ ~LatestIsFresh(obs) =>
              /\ Inserted(obs)
              /\ obs.written[1].created_at.t = obs.time
        /\ (obs.gap # <<>> /\ obs.gap[1] >= 3600) => Inserted(obs)

C1_InsertWithinTheHour ==
    /\ obs.op = "save_snapshot" /\ Succeeded(obs)
    /\ obs.gap # <<>> /\ obs.gap[1] < 3600
    /\ obs.latest # <<>> /\ obs.latest[1].created_at.iso
    /\ Inserted(obs)

Answered(r) == r.kind = "payload" /\ r.status \in {"success", "error"}

\* C4 as claimed: save_snapshot answers every request, in every state of the
\* store, with a payload of status success or error, never a fault.
C4_NeverRaises ==
    obs.op = "save_snapshot" => Answered(obs.response)

\* C4 amended: with the store configured save_snapshot answers every request
\* with a payload of status success or error, whatever fails in the store or
\* in reading created_at; with no store configured it raises HTTP 503.
C4_NeverRaisesOnceConfigured ==
    obs.op = "save_snapshot" =>
        IF configured THEN Answered(obs.response)
        ELSE obs.response.kind = "fault" /\ obs.response.code = 503

C4_StoreErrorAnswered ==
    obs.op = "save_snapshot" /\ configured /\ obs.response.kind = "payload"
        /\ obs.response.status = "error" /\ obs.latest # <<>> /\ ~obs.latest[1].created_at.iso

\* C7: the row save_snapshot persists, updated or inserted, has
\* daily_return = total_current - total_invested and a daily_return_rate r
\* with r * total_invested = 100 * daily_return when total_invested > 0,
\* r = 0 when total_invested = 0.
C7_ReturnAndRate ==
    (obs.op = "save_snapshot" /\ obs.written # <<>>) =>
        LET row == obs.written[1]
            tc == obs.req.total_current
            ti == obs.req.total_invested
            r == row.daily_return_rate
        IN  /\ \E i \in DOMAIN history : history[i] = row
            /\ row.total_current_value = tc /\ row.total_invested_value = ti
            /\ row.daily_return = tc - ti
            /\ ti > 0 => r[2] > 0 /\ r[1] * ti = 100 * (tc - ti) * r[2]
            /\ ti = 0 => r = <<0, 1>>

C7_UpdatedWithRate ==
    /\ obs.op = "save_snapshot" /\ Succeeded(obs) /\ obs.response.action = "update"
    /\ obs.req.total_invested > 0 /\ obs.written[1].daily_return_rate = <<200, 3>>

---------------------------------------------------------------------------
(* Claims about get_history *)

Restrict(r) == [k \in SelectedColumns |-> r[k]]

\* The answer is the stored rows of the user dated today - n or later, each
\* once, in ascending created_at order.
WindowIs(o, n) ==
    LET want == SelectSeq(history, LAMBDA r : r.user_id = o.user /\ r.date >= o.today - n)
    IN  /\ SameMultiset([i \in DOMAIN o.rows |-> Restrict(o.rows[i])],
                        [i \in DOMAIN want |-> Restrict(want[i])])
        /\ \A i, j \in DOMAIN o.rows :
              i < j => o.rows[i].created_at.t <= o.rows[j].created_at.t

ClaimedDays(arg) ==
    CASE arg = "1W" -> 7 [] arg = "1M" -> 30 [] arg = "3M" -> 90 [] arg = "1Y" -> 365
      [] OTHER -> 3650

\* C5 as claimed: get_history returns the user's rows of the last N days,
\* N = 7, 30, 90, 365 for 1W, 1M, 3M, 1Y and 3650 for ALL, for any other
\* value and for an omitted range.
C5_WindowAsClaimed ==
    (obs.op = "get_history" /\ obs.ok) => WindowIs(obs, ClaimedDays(obs.range))

\* C5 amended: as claimed, but an omitted range is 1M, N = 30; and when the
\* store is not configured or the query fails the answer is empty.
C5_WindowWithDefault ==
    obs.op = "get_history" =>
        IF obs.ok
        THEN WindowIs(obs, IF obs.range = "omitted" THEN 30 ELSE ClaimedDays(obs.range))
        ELSE obs.rows = <<>>

C5_DefaultWindowCuts ==
    /\ obs.op = "get_history" /\ obs.ok /\ obs.range = "omitted"
    /\ obs.rows # <<>>
    /\ \E i \in DOMAIN history :
          history[i].user_id = obs.user /\ history[i].date < obs.today - 30

HasBoth(r, cur, inv) == r[cur] # <<>> /\ r[inv] # <<>>

\* The derived fields of one market as C10 has them.
DerivedAsClaimed(r, cur, inv, ret, rate) ==
    IF HasBoth(r, cur, inv)
    THEN /\ {ret, rate} \subseteq DOMAIN r
         /\ r[ret] = r[cur][1] - r[inv][1]
         /\ r[inv][1] = 0 => r[rate] = <<0, 1>>
         /\ r[inv][1] # 0 => r[rate][1] * r[inv][1] = 100 * r[ret] * r[rate][2]
    ELSE {ret, rate} \cap DOMAIN r = {}

\* The derived fields of one market as the code has them.
DerivedAmended(r, cur, inv, ret, rate) ==
    IF HasBoth(r, cur, inv)
    THEN /\ {ret, rate} \subseteq DOMAIN r
         /\ r[ret] = r[cur][1] - r[inv][1]
         /\ r[inv][1] <= 0 => r[rate] = <<0, 1>>
         /\ r[inv][1] > 0 => r[rate][2] > 0 /\ r[rate][1] * r[inv][1] = 100 * r[ret] * r[rate][2]
    ELSE {ret, rate} \cap DOMAIN r = {}

\* C10 as claimed: every returned row holds the stored fields unchanged
\* (stated for the columns the query selects), and for each market, kr_ and
\* us_ apart, return = current - invested and rate = return / invested * 100
\* (0 when invested is 0) when both values are present, and neither field
\* otherwise.
C10_EnrichmentAsClaimed ==
    (obs.op = "get_history" /\ obs.ok) =>
        \A i \in DOMAIN obs.rows :
            LET r == obs.rows[i] IN
            /\ \A k \in SelectedColumns : k \in DOMAIN r /\ r[k] = obs.stored[i][k]
            /\ DerivedAsClaimed(r, "kr_current_value", "kr_invested_value", "kr_return", "kr_rate")
            /\ DerivedAsClaimed(r, "us_current_value", "us_invested_value", "us_return", "us_rate")

\* C10 amended: every returned row holds the selected columns (all stored
\* fields but id and user_id) unchanged and nothing else but derived fields;
\* the rate is return / invested * 100 when invested > 0 and 0 when invested
\* is 0 or negative.
C10_EnrichmentAmended ==
    (obs.op = "get_history" /\ obs.ok) =>
        /\ Len(obs.rows) = Len(obs.stored)
        /\ \A i \in DOMAIN obs.rows :
            LET r == obs.rows[i] IN
            /\ \A k \in SelectedColumns : k \in DOMAIN r /\ r[k] = obs.stored[i][k]
            /\ DOMAIN obs.stored[i] \ SelectedColumns = {"id", "user_id"}
            /\ DOMAIN r \subseteq SelectedColumns \cup {"kr_return", "kr_rate", "us_return", "us_rate"}
            /\ DerivedAmended(r, "kr_current_value", "kr_invested_value", "kr_return", "kr_rate")
            /\ DerivedAmended(r, "us_current_value", "us_invested_value", "us_return", "us_rate")

C10_OneMarketDerived ==
    /\ obs.op = "get_history" /\ obs.ok
    /\ \E i \in DOMAIN obs.rows : "kr_rate" \in DOMAIN obs.rows[i] /\ "us_rate" \notin DOMAIN obs.rows[i]
    /\ \E i \in DOMAIN obs.rows : "us_rate" \in DOMAIN obs.rows[i] /\ obs.rows[i].us_invested_value[1] < 0

---------------------------------------------------------------------------
(* Claims about get_price *)

IsSoftFailure(response) ==
    /\ response.kind = "payload"
    /\ "error" \in DOMAIN response.body
    /\ response.body.price = Zero
    /\ response.body.rate = Zero
    /\ response.body.change = <<"0">>

\* A text reads as a number, thousands separators allowed.
Numeric(t) == IsFloat(RemoveCommas(Strip(t)))

ScrapedOf(page) == {page.price_text} \cup Range(page.blinds)

\* The failures the claim lists.
FailureAsClaimed ==
    IF obs.market = "US"
    THEN obs.provider.raises \/ obs.provider.rows = <<>>
    ELSE \/ obs.page.raises
         \/ ~obs.page.no_today \/ ~obs.page.price_span
         \/ ~obs.page.no_exday \/ Len(obs.page.blinds) < 2
         \/ \E t \in ScrapedOf(obs.page) : ~Numeric(t)

\* C6 as stated: on the US path when the provider raises or returns no rows,
\* and on the KR path when the fetch fails, the price node or the change
\* node is missing or a scraped text is not numeric, get_price answers the
\* soft-failure quote with a non-empty error string.
C6_SoftFailureAsClaimed ==
    (obs.op = "get_price" /\ obs.code # "" /\ FailureAsClaimed) =>
        /\ IsSoftFailure(obs.response)
        /\ obs.response.body.error # ""

PriceParses(page) == IsInt(RemoveCommas(Strip(page.price_text)))

RateGiven(page) == Len(page.blinds) >= 2

\* The failures get_price turns into the soft-failure quote.
FailureCaught ==
    IF obs.market = "US"
    THEN obs.provider.raises \/ obs.provider.rows = <<>>
    ELSE \/ obs.page.raises
         \/ ~obs.page.no_today \/ ~obs.page.price_span \/ ~obs.page.no_exday
         \/ ~PriceParses(obs.page)
         \/ RateGiven(obs.page) /\ ~IsFloat(Strip(obs.page.blinds[2]))

UpstreamRaised ==
    IF obs.market = "US" THEN obs.provider.raises ELSE obs.page.raises

UpstreamMessage ==
    IF obs.market = "US" THEN obs.provider.msg ELSE obs.page.msg

\* C6 amended: for a non-empty code get_price never raises; it answers the
\* soft-failure quote with an error string exactly when the provider raises
\* or returns no rows (US) or the fetch raises, .no_today, its price node or
\* .no_exday is missing, the price text is not an integer or the rate text
\* is not a float (KR). The error string is the message of the exception
\* the upstream raised, and is non-empty for every other failure. With
\* fewer than two change texts the quote carries change "0" and rate 0, and
\* a change text is passed through whatever it reads. An empty code raises
\* HTTP 400.
C6_SoftFailureAmended ==
    obs.op = "get_price" =>
        IF obs.code = "" THEN obs.response = CodeRequired
        ELSE /\ obs.response.kind = "payload"
             /\ obs.response.body.code = obs.code
             /\ IsSoftFailure(obs.response) <=> FailureCaught
             /\ "error" \in DOMAIN obs.response.body <=> FailureCaught
             /\ FailureCaught =>
                   IF UpstreamRaised THEN obs.response.body.error = UpstreamMessage
                   ELSE obs.response.body.error # ""
             /\ (~FailureCaught /\ obs.market # "US") =>
                   /\ obs.response.body.change =
                         (IF RateGiven(obs.page) THEN Strip(obs.page.blinds[1]) ELSE <<"0">>)
                   /\ ~RateGiven(obs.page) => obs.response.body.rate = Zero

\* A page with every node whose rate text is not a number is answered with
\* the soft-failure quote.
C6_RateTextCaught ==
    /\ obs.op = "get_price"
    /\ obs.market = "KR"
    /\ ~obs.page.raises /\ obs.page.no_today /\ obs.page.price_span /\ obs.page.no_exday
    /\ PriceParses(obs.page)
    /\ RateGiven(obs.page) /\ ~Numeric(obs.page.blinds[2])
    /\ IsSoftFailure(obs.response)
    /\ obs.response.body.error # ""

---------------------------------------------------------------------------
(* Claims about interleaved save_snapshot calls *)

RowsOf(u) == Range(HistoryOf(history, u))

AnHourApart(u) ==
    \A r, q \in RowsOf(u) : r.id # q.id => Abs(r.created_at.t - q.created_at.t) >= FreshSeconds

\* C11 as stated: from an empty table, under every interleaving of
\* save_snapshot calls of one user, with created_at stamps the handler can
\* read, any two rows of the user are created at least 3600 seconds apart.
C11_RowsAnHourApart ==
    isoReads => \A u \in Users : AnHourApart(u)

\* C11 amended: from an empty table, while no save_snapshot call of a user
\* has read the latest row between the read and the write of another call
\* of that user, and the created_at stamps are readable, any two rows of
\* the user are created at least 3600 seconds apart.
C11_RowsAnHourApartUnlessOverlapped ==
    \A u \in Users : (isoReads /\ ~overlapped[u]) => AnHourApart(u)

\* Calls of a user that never overlapped have left two rows.
C11_TwoRowsInTurn ==
    \E u \in Users :
        /\ isoReads /\ ~overlapped[u]
        /\ Cardinality(RowsOf(u)) >= 2
        /\ obs.op = "save_snapshot" /\ obs.user = u /\ obs.response = SnapshotSuccess(FALSE)

---------------------------------------------------------------------------
(* Claims about the two write paths together *)

\* The users whose save_holdings or save_snapshot request takes the step.
Actors ==
    {u \in Users :
        \/ \E p \in Procs :
              /\ pc'[p] # pc[p] \/ ops'[p] # ops[p]
              /\ (pc[p] # "idle" /\ cuser[p] = u) \/ (pc'[p] # "idle" /\ cuser'[p] = u)
        \/ \E p \in Procs : snap'[p] # snap[p] /\ u \in {snap[p].user, snap'[p].user}
        \/ /\ obs = NoObs /\ obs' # NoObs
           /\ obs'.op \in {"update_holdings", "save_snapshot"}
           /\ obs'.user = u}

Touched == {i \in DOMAIN history' : i \notin DOMAIN history \/ history'[i] # history[i]}

\* C12: a step of save_holdings or save_snapshot for user u deletes,
\* inserts and updates only rows whose user_id is u: the holdings rows and
\* the portfolio_history rows of every other user are after the step what
\* they were before it, also when the call fails part-way.
C12_WritesIsolated ==
    [][ /\ \A v \in Users \ Actors :
              /\ UserRows(holdings', v) = UserRows(holdings, v)
              /\ HistoryOf(history', v) = HistoryOf(history, v)
        /\ \A i \in Touched : history'[i].user_id \in Actors
        /\ \A i \in DOMAIN history : i \in DOMAIN history' /\ history'[i].id = history[i].id
      ]_vars

\* A save_holdings call that failed after its delete has left its user
\* without rows while another user has holdings and history rows.
C12_OtherUsersRowsKept ==
    \E u, v \in Users :
        /\ u # v
        /\ obs.op = "update_holdings" /\ obs.user = u /\ obs.list # <<>>
        /\ UserRows(holdings, u) = <<>>
        /\ UserRows(holdings, v) # <<>>
        /\ HistoryOf(history, v) # <<>>

====
